---- MODULE Spec2Model ----
(***************************************************************************)
(* School infrastructure dashboard (src/app.py).                           *)
(*                                                                         *)
(* The script is a Streamlit page: load_data reads the CSV once (cached)   *)
(* and adds three derived columns; every widget interaction re-runs the    *)
(* script, which rebuilds the filtered view f from df and the widget       *)
(* values and then computes the KPI cards and the chart aggregates.        *)
(* Chart drawing, the data table and the CSV download are not represented. *)
(*                                                                         *)
(* Representation of pandas values:                                        *)
(*   - a cell is <<>> (missing, NaN) or <<v>> (value v).  Text columns     *)
(*     (state, district, block) only take part in equality and membership  *)
(*     tests, so their values are represented by integer ids;              *)
(*   - a float result is <<>> (NaN) or <<[n |-> a, d |-> b]>>, the         *)
(*     fraction a/b in lowest terms; d = 0 stands for +inf;                *)
(*   - a table is a sequence of rows, a row a function from column names   *)
(*     to cells;                                                           *)
(*   - a widget return value is <<>> (Python None) or <<v>>.               *)
(***************************************************************************)
EXTENDS Integers, Sequences, FiniteSets, TLC

VARIABLES
    csv,            \* the CSV file: [columns |-> set of names, rows |-> table]
    columns,        \* df.columns
    df,             \* the loaded dataset, derived columns included
    pc,             \* "start" | "loaded" | "ready"
    sel,            \* multiselect widgets: column -> selected set
    choice,         \* selectbox widgets: column -> chosen label
    grade_range,    \* slider widget: <<>> (no slider) or <<lo, hi>>
    f,              \* the filtered view
    kpi,            \* the eight metric cards
    infra_by_dist,  \* chart 1
    stack,          \* chart 2
    bs,             \* chart 3
    heat,           \* chart 4
    proj,           \* chart 5
    nchanges        \* widget interactions so far in the session

vars == <<csv, columns, df, pc, sel, choice, grade_range, f, kpi,
          infra_by_dist, stack, bs, heat, proj, nchanges>>

----------------------------------------------------------------------------
(* Bounds of the model *)

MaxRows == 2

MaxChanges == 2

MaxCode == 4

MaxCount == 2

----------------------------------------------------------------------------
(* pandas / Python values *)

NaN == <<>>

None == <<>>

V(x) == <<x>>

Min2(a, b) == IF a <= b THEN a ELSE b

RECURSIVE Gcd(_, _)
Gcd(a, b) == IF b = 0 THEN a ELSE Gcd(b, a % b)

\* the float a/b for integers a >= 0, b > 0, in lowest terms
Rat(a, b) == LET g == Gcd(a, b) IN V([n |-> a \div g, d |-> b \div g])

Inf == V([n |-> 1, d |-> 0])

\* Series + Series: NaN propagates
Add(x, y) == IF x = NaN \/ y = NaN THEN NaN ELSE V(x[1] + y[1])

\* Series / Series (true division): NaN propagates, x/0 is inf, 0/0 is NaN
Div(x, y) ==
    IF x = NaN \/ y = NaN THEN NaN
    ELSE IF y[1] = 0 THEN (IF x[1] = 0 THEN NaN ELSE Inf)
    ELSE Rat(x[1], y[1])

\* Series == code and Series > code: a comparison with NaN is False
Eq(x, c) == x # NaN /\ x[1] = c

Gt(x, c) == x # NaN /\ x[1] > c

Ge(x, c) == x # NaN /\ x[1] >= c

Le(x, c) == x # NaN /\ x[1] <= c

----------------------------------------------------------------------------
(* load_data: the derived columns *)

InfraCols == <<"electricity_availability", "internet",
               "library_availability", "playground_available">>

\* .replace({2: 0, 3: 0}) on one cell
ReplaceNo(c) == IF c = V(2) \/ c = V(3) THEN V(0) ELSE c

\* .sum(axis=1) over the four cells: missing cells are skipped
RECURSIVE SumSkipNa(_)
SumSkipNa(cells) ==
    IF cells = <<>> THEN 0
    ELSE (IF Head(cells) = NaN THEN 0 ELSE Head(cells)[1]) + SumSkipNa(Tail(cells))

infra_score(r) ==
    SumSkipNa([i \in 1..Len(InfraCols) |-> ReplaceNo(r[InfraCols[i]])])

\* the denominator left as it is
ReplaceZeroMutant(x) == x

\* .replace(0, np.nan) on the denominator
ReplaceZero(x) == IF x = V(0) THEN NaN ELSE x

toilet_functionality_ratio(r) ==
    Div(Add(r.total_boys_func_toilet, r.total_girls_func_toilet),
        ReplaceZero(Add(r.total_boys_toilet, r.total_girls_toilet)))

\* both counts required instead of either
cwsn_readyMutant(r) ==
    Eq(r.availability_ramps, 1)
    /\ (Gt(r.func_boys_cwsn_friendly, 0) /\ Gt(r.func_girls_cwsn_friendly, 0))

\* (ramps == 1) & ((boys > 0) | (girls > 0))
cwsn_ready(r) ==
    Eq(r.availability_ramps, 1)
    /\ (Gt(r.func_boys_cwsn_friendly, 0) \/ Gt(r.func_girls_cwsn_friendly, 0))

DerivedCols == {"infra_score", "toilet_functionality_ratio", "cwsn_ready"}

Derive(r) ==
    [c \in DOMAIN r \cup DerivedCols |->
        CASE c = "infra_score" -> infra_score(r)
          [] c = "toilet_functionality_ratio" -> toilet_functionality_ratio(r)
          [] c = "cwsn_ready" -> cwsn_ready(r)
          [] OTHER -> r[c]]

load_data(file) == [i \in 1..Len(file.rows) |-> Derive(file.rows[i])]

----------------------------------------------------------------------------
(* Sidebar widgets *)

MultiCols == {"state", "district", "block", "school_category", "school_type",
              "managment", "boundary_wall"}

ru_map == ("Rural" :> 1 @@ "Urban" :> 2)

resi_map == ("Yes" :> 1 @@ "Partial" :> 2 @@ "No" :> 3)

elec_map == ("Yes" :> 1 @@ "No/Not functional" :> 2)

yes_no_map == ("Yes" :> 1 @@ "No" :> 2)

spl_map == ("Dedicated" :> 1 @@ "Cluster" :> 2 @@ "None" :> 3)

\* the mapping each apply_selectbox call is given
SelectMap ==
    [rural_urban |-> ru_map,
     resi_school |-> resi_map,
     minority_school |-> yes_no_map,
     electricity_availability |-> elec_map,
     internet |-> yes_no_map,
     library_availability |-> yes_no_map,
     playground_available |-> yes_no_map,
     rain_water_harvesting |-> yes_no_map,
     availability_ramps |-> yes_no_map,
     availability_of_handrails |-> yes_no_map,
     spl_educator_yn |-> spl_map]

SelectCols == DOMAIN SelectMap

\* df[col].dropna().unique()
opts(col) == {df[i][col] : i \in 1..Len(df)} \ {NaN}

\* what the multiselect hands back: None without the column, else the selection
apply_multiselect(col, s) == IF col \notin columns THEN None ELSE V(s[col])

\* what the selectbox hands back: mapping.get(choice, None)
apply_selectbox(col, mapping, c) ==
    IF col \notin columns THEN None
    ELSE IF c[col] \in DOMAIN mapping THEN V(mapping[c[col]])
    ELSE None

HasGrades == "lowclass" \in columns /\ "highclass" \in columns

\* int(df["lowclass"].min()): missing cells are skipped; the grades are whole
\* numbers, which int() leaves as they are
GradeLow ==
    LET xs == {df[i].lowclass[1] : i \in {j \in 1..Len(df) : df[j].lowclass # NaN}}
    IN  CHOOSE m \in xs : \A x \in xs : m <= x

\* int(df["highclass"].max())
GradeHigh ==
    LET xs == {df[i].highclass[1] : i \in {j \in 1..Len(df) : df[j].highclass # NaN}}
    IN  CHOOSE m \in xs : \A x \in xs : m >= x

----------------------------------------------------------------------------
(* Applying the filters *)

\* `if sel: f = f[f[col].isin(sel)]`: None and the empty list are falsy
IsInFilter(view, col, selected) ==
    IF selected # None /\ selected[1] # {}
    THEN SelectSeq(view, LAMBDA r : r[col] \in selected[1])
    ELSE view

\* `if val: f = f[f[col] == val]`: None and 0 are falsy
EqFilterTruthy(view, col, val) ==
    IF val # None /\ val[1] # 0
    THEN SelectSeq(view, LAMBDA r : Eq(r[col], val[1]))
    ELSE view

\* `if val is not None: f = f[f[col] == val]`
EqFilter(view, col, val) ==
    IF val # None
    THEN SelectSeq(view, LAMBDA r : Eq(r[col], val[1]))
    ELSE view

\* `if grade_range: f = f[(lowclass >= lo) & (highclass <= hi)]`: a pair is truthy
GradeFilter(view, g) ==
    IF g # None
    THEN SelectSeq(view, LAMBDA r : Ge(r.lowclass, g[1]) /\ Le(r.highclass, g[2]))
    ELSE view

\* the columns of the `for col, val in [...]` loop, in its order
LoopCols == <<"electricity_availability", "internet", "library_availability",
              "playground_available", "rain_water_harvesting",
              "availability_ramps", "availability_of_handrails",
              "spl_educator_yn">>

RECURSIVE LoopFilter(_, _, _)
LoopFilter(view, c, i) ==
    IF i > Len(LoopCols) THEN view
    ELSE LoopFilter(
            EqFilter(view, LoopCols[i],
                     apply_selectbox(LoopCols[i], SelectMap[LoopCols[i]], c)),
            c, i + 1)

\* a run that narrows the view of the run before
FilterBaseMutant(prev) == IF pc = "ready" THEN prev ELSE df

\* f = df.copy(): every run starts again from the loaded dataset
FilterBase(prev) == df

\* lines 96-122, in order, from the widget values s (multiselects),
\* c (selectboxes) and g (slider)
ApplyFilters(base, s, c, g) ==
    LET states      == apply_multiselect("state", s)
        districts   == apply_multiselect("district", s)
        blocks      == apply_multiselect("block", s)
        rural_urban == apply_selectbox("rural_urban", ru_map, c)
        school_cat  == apply_multiselect("school_category", s)
        school_type == apply_multiselect("school_type", s)
        management  == apply_multiselect("managment", s)
        resi        == apply_selectbox("resi_school", resi_map, c)
        minority    == apply_selectbox("minority_school", yes_no_map, c)
        boundary_sel == apply_multiselect("boundary_wall", s)
        f1  == IsInFilter(base, "state", states)
        f2  == IsInFilter(f1, "district", districts)
        f3  == IsInFilter(f2, "block", blocks)
        f4  == EqFilterTruthy(f3, "rural_urban", rural_urban)
        f5  == IsInFilter(f4, "school_category", school_cat)
        f6  == IsInFilter(f5, "school_type", school_type)
        f7  == IsInFilter(f6, "managment", management)
        f8  == EqFilterTruthy(f7, "resi_school", resi)
        f9  == EqFilterTruthy(f8, "minority_school", minority)
        f10 == GradeFilter(f9, g)
        f11 == LoopFilter(f10, c, 1)
    IN  IsInFilter(f11, "boundary_wall", boundary_sel)

----------------------------------------------------------------------------
(* Series.mean() and the metric format *)

\* a + b for two finite floats, or +inf when either is
RatAdd(a, b) ==
    IF a.d = 0 \/ b.d = 0 THEN Inf[1]
    ELSE Rat(a.n * b.d + b.n * a.d, a.d * b.d)[1]

RECURSIVE RatSum(_)
RatSum(xs) == IF xs = <<>> THEN Rat(0, 1)[1] ELSE RatAdd(Head(xs)[1], RatSum(Tail(xs)))

\* a mean that reports 0 for an empty series
MeanMutant(xs) ==
    LET ys == SelectSeq(xs, LAMBDA x : x # NaN)
        t  == RatSum(ys)
    IN  IF Len(ys) = 0 THEN Rat(0, 1)
        ELSE IF t.d = 0 THEN Inf
        ELSE Rat(t.n, t.d * Len(ys))

\* Series.mean(): missing values are skipped, and the mean of nothing is NaN
Mean(xs) ==
    LET ys == SelectSeq(xs, LAMBDA x : x # NaN)
        t  == RatSum(ys)
    IN  IF Len(ys) = 0 THEN NaN
        ELSE IF t.d = 0 THEN Inf
        ELSE Rat(t.n, t.d * Len(ys))

\* x * 100
Times100(x) ==
    IF x = NaN THEN NaN
    ELSE IF x[1].d = 0 THEN Inf
    ELSE Rat(100 * x[1].n, x[1].d)

\* f"{x:0.1f}%": "nan%", "inf%", or the number to one decimal (in tenths,
\* rounded half to even)
Format(x) ==
    IF x = NaN THEN [text |-> "nan%", tenths |-> 0]
    ELSE IF x[1].d = 0 THEN [text |-> "inf%", tenths |-> 0]
    ELSE LET a == 10 * x[1].n
             q == a \div x[1].d
             r == a % x[1].d
         IN  [text |-> "number",
              tenths |-> IF 2 * r > x[1].d \/ (2 * r = x[1].d /\ q % 2 = 1)
                         THEN q + 1 ELSE q]

\* (view[col] == 1) as a series of 0.0 / 1.0
IsOne(view, col) ==
    [i \in 1..Len(view) |-> IF Eq(view[i][col], 1) THEN Rat(1, 1) ELSE Rat(0, 1)]

\* a boolean column (cwsn_ready) as a series of floats
BoolAsFloat(view, col) ==
    [i \in 1..Len(view) |-> IF view[i][col] THEN Rat(1, 1) ELSE Rat(0, 1)]

\* a whole-number column without missing values (infra_score) as floats
IntAsFloat(view, col) == [i \in 1..Len(view) |-> Rat(view[i][col], 1)]

\* a column of cells (projector) as floats
CellAsFloat(view, col) ==
    [i \in 1..Len(view) |->
        IF view[i][col] = NaN THEN NaN ELSE Rat(view[i][col][1], 1)]

Column(view, col) == [i \in 1..Len(view) |-> view[i][col]]

\* c1 .. c8
KpiCards(view) ==
    [total       |-> Len(view),
     electricity |-> Format(Times100(Mean(IsOne(view, "electricity_availability")))),
     internet    |-> Format(Times100(Mean(IsOne(view, "internet")))),
     library     |-> Format(Times100(Mean(IsOne(view, "library_availability")))),
     playground  |-> Format(Times100(Mean(IsOne(view, "playground_available")))),
     rainwater   |-> Format(Times100(Mean(IsOne(view, "rain_water_harvesting")))),
     toilet      |-> Format(Times100(Mean(Column(view, "toilet_functionality_ratio")))),
     cwsn        |-> Format(Times100(Mean(BoolAsFloat(view, "cwsn_ready"))))]

----------------------------------------------------------------------------
(* Grouped aggregates *)

\* groups taken from the unfiltered dataset
GroupKeysMutant(view, col) == {df[i][col] : i \in 1..Len(df)} \ {NaN}

\* the groups of view.groupby(col): the values present, missing ones dropped
GroupKeys(view, col) == {view[i][col] : i \in 1..Len(view)} \ {NaN}

Group(view, col, k) == SelectSeq(view, LAMBDA r : r[col] = k)

RatLess(a, b) == a.n * b.d < b.n * a.d

TopN == 10

\* f.groupby("district")["infra_score"].mean(), before sorting
DistrictMeans(view) ==
    {[district |-> k, infra_score |-> Mean(IntAsFloat(Group(view, "district", k), "infra_score"))]
        : k \in GroupKeys(view, "district")}

\* x has to come before y in a descending sort: a greater mean first, NaN last
ComesFirst(x, y) ==
    x # NaN /\ (y = NaN \/ RatLess(y[1], x[1]))

\* .sort_values(ascending=False): every descending order of the rows; the
\* default sort is not stable, so equal means may come out either way
SortedDescending(S) ==
    {p \in [1..Cardinality(S) -> S] :
        /\ \A i, j \in 1..Cardinality(S) : i # j => p[i] # p[j]
        /\ \A i, j \in 1..Cardinality(S) :
              i < j => ~ComesFirst(p[j].infra_score, p[i].infra_score)}

\* .head(10).reset_index()
HeadTopN(p) == SubSeq(p, 1, Min2(TopN, Len(p)))

InfraNames == <<"Electricity", "Internet", "Library">>

\* assign(...).melt(...).groupby(["district", "Infra"])["Has"].mean().mul(100)
Stack(view) ==
    {[district |-> k, Infra |-> InfraNames[i],
      Has |-> Times100(Mean(IsOne(Group(view, "district", k), InfraCols[i])))]
        : k \in GroupKeys(view, "district"), i \in 1..Len(InfraNames)}

\* f["building_status"].value_counts().reset_index(); the order of the rows
\* is not represented
BuildingStatus(view) ==
    {[index |-> k, building_status |-> Len(Group(view, "building_status", k))]
        : k \in GroupKeys(view, "building_status")}

\* the (ramps, cwsn_ready) pairs of the rows whose ramps value is present
RampPairs(view) ==
    {<<view[i].availability_ramps, view[i].cwsn_ready>> :
        i \in {j \in 1..Len(view) : view[j].availability_ramps # NaN}}

\* f.groupby(["availability_ramps", "cwsn_ready"]).size().unstack(fill_value=0)
Heat(view) ==
    LET pairs == RampPairs(view)
        rows  == {p[1] : p \in pairs}
        cols  == {p[2] : p \in pairs}
    IN  [index |-> rows, columns |-> cols,
         cell |-> [p \in rows \X cols |->
                    Len(SelectSeq(view, LAMBDA r :
                        r.availability_ramps = p[1] /\ r.cwsn_ready = p[2]))]]

\* f.groupby("school_type")["projector"].mean().reset_index()
Projectors(view) ==
    {[school_type |-> k,
      projector |-> Mean(CellAsFloat(Group(view, "school_type", k), "projector"))]
        : k \in GroupKeys(view, "school_type")}

----------------------------------------------------------------------------
(* The CSV files the dashboard is started on *)

\* the columns the script reads without asking whether they exist
RequiredCols ==
    {"district", "school_type", "electricity_availability", "internet",
     "library_availability", "playground_available", "rain_water_harvesting",
     "availability_ramps", "total_boys_toilet", "total_girls_toilet",
     "total_boys_func_toilet", "total_girls_func_toilet",
     "func_boys_cwsn_friendly", "func_girls_cwsn_friendly",
     "building_status", "projector"}

\* the columns every use of which is guarded by `col in df.columns`
OptionalCols ==
    {"state", "block", "rural_urban", "school_category", "managment",
     "resi_school", "minority_school", "lowclass", "highclass",
     "boundary_wall", "availability_of_handrails", "spl_educator_yn"}

RawCols == RequiredCols \cup OptionalCols

Schemas == {RawCols, RequiredCols}

SchoolA ==
    [state |-> V(1), district |-> V(1), block |-> V(1), rural_urban |-> V(1),
     school_category |-> V(1), school_type |-> V(1), managment |-> V(1),
     resi_school |-> V(3), minority_school |-> V(2),
     lowclass |-> V(1), highclass |-> V(2),
     electricity_availability |-> V(1), internet |-> V(1),
     library_availability |-> V(1), playground_available |-> V(1),
     rain_water_harvesting |-> V(2), boundary_wall |-> V(1),
     availability_ramps |-> V(1), availability_of_handrails |-> V(1),
     spl_educator_yn |-> V(3),
     total_boys_toilet |-> V(1), total_girls_toilet |-> V(1),
     total_boys_func_toilet |-> V(1), total_girls_func_toilet |-> V(0),
     func_boys_cwsn_friendly |-> V(1), func_girls_cwsn_friendly |-> V(0),
     building_status |-> V(1), projector |-> V(2)]

SchoolB ==
    [SchoolA EXCEPT
     !.state = V(2), !.district = V(2), !.rural_urban = V(2),
     !.school_type = V(2), !.highclass = V(3),
     !.electricity_availability = V(2), !.internet = V(2),
     !.playground_available = V(2), !.availability_ramps = V(2),
     !.availability_of_handrails = V(2),
     !.total_boys_toilet = V(0), !.total_girls_toilet = V(0),
     !.total_boys_func_toilet = V(0),
     !.func_boys_cwsn_friendly = V(0),
     !.building_status = V(2), !.projector = V(0)]

SchoolC ==
    [SchoolA EXCEPT
     !.state = NaN, !.lowclass = V(2), !.highclass = V(3),
     !.electricity_availability = V(3), !.internet = V(2),
     !.library_availability = V(2), !.rain_water_harvesting = V(1),
     !.total_boys_toilet = V(2), !.total_girls_func_toilet = V(1),
     !.func_boys_cwsn_friendly = NaN, !.projector = NaN]

SchoolD ==
    [SchoolA EXCEPT
     !.district = V(2), !.school_type = V(2), !.lowclass = NaN,
     !.highclass = V(3), !.availability_ramps = NaN,
     !.minority_school = V(1), !.spl_educator_yn = V(1),
     !.func_girls_cwsn_friendly = V(2),
     !.building_status = NaN, !.projector = V(1)]

SchoolPool == <<SchoolA, SchoolB, SchoolC, SchoolD>>

\* the tables of at most MaxRows schools taken from the pool in its order
PoolTables ==
    {[i \in 1..Cardinality(S) |->
        SchoolPool[CHOOSE k \in S : Cardinality({j \in S : j < k}) = i - 1]]
        : S \in {T \in SUBSET (1..Len(SchoolPool)) :
                    T # {} /\ Cardinality(T) <= MaxRows}}

Restrict(r, cols) == [c \in cols |-> r[c]]

\* the slider needs a lowest and a highest grade: int(NaN) raises
GradesKnown(file) ==
    ("lowclass" \in file.columns /\ "highclass" \in file.columns) =>
        /\ \E i \in 1..Len(file.rows) : file.rows[i].lowclass # NaN
        /\ \E i \in 1..Len(file.rows) : file.rows[i].highclass # NaN

Datasets ==
    {file \in {[columns |-> cols,
                rows |-> [i \in 1..Len(t) |-> Restrict(t[i], cols)]]
                  : cols \in Schemas, t \in PoolTables} :
        GradesKnown(file)}

\* raw codes and counts a survey file may hold
Codes == {NaN} \cup {V(c) : c \in 0..MaxCode}

Counts == {NaN} \cup {V(n) : n \in 0..MaxCount}

\* one-school files that vary the inputs of one derived column at a time
DeriveRows ==
    {[SchoolA EXCEPT !.electricity_availability = e, !.internet = n,
                     !.library_availability = l, !.playground_available = p]
        : e \in Codes, n \in Codes, l \in Codes, p \in Codes}
    \cup
    {[SchoolA EXCEPT !.total_boys_toilet = bt, !.total_girls_toilet = gt,
                     !.total_boys_func_toilet = bf, !.total_girls_func_toilet = gf]
        : bt \in Counts, gt \in Counts, bf \in Counts, gf \in Counts}
    \cup
    {[SchoolA EXCEPT !.availability_ramps = a, !.func_boys_cwsn_friendly = b,
                     !.func_girls_cwsn_friendly = g]
        : a \in Codes, b \in Counts, g \in Counts}

DeriveDatasets == {[columns |-> RawCols, rows |-> <<r>>] : r \in DeriveRows}

----------------------------------------------------------------------------
(* The session *)

Blank ==
    /\ columns = {}
    /\ df = <<>>
    /\ pc = "start"
    /\ sel = <<>>
    /\ choice = <<>>
    /\ grade_range = None
    /\ f = <<>>
    /\ kpi = <<>>
    /\ infra_by_dist = <<>>
    /\ stack = {}
    /\ bs = {}
    /\ heat = <<>>
    /\ proj = {}
    /\ nchanges = 0

Init == csv \in Datasets /\ Blank

InitDerive == csv \in DeriveDatasets /\ Blank

\* df = load_data(): runs once, the result is cached for the session
LoadData ==
    /\ pc = "start"
    /\ df' = load_data(csv)
    /\ columns' = csv.columns \cup DerivedCols
    /\ pc' = "loaded"
    /\ UNCHANGED <<csv, sel, choice, grade_range, f, kpi, infra_by_dist,
                   stack, bs, heat, proj, nchanges>>

\* the script from `f = df.copy()` to the last chart, with the widgets
\* holding s, c and g
Render(s, c, g) ==
    /\ f' = ApplyFilters(FilterBase(f), s, c, g)
    /\ kpi' = KpiCards(f')
    /\ \E p \in SortedDescending(DistrictMeans(f')) : infra_by_dist' = HeadTopN(p)
    /\ stack' = Stack(f')
    /\ bs' = BuildingStatus(f')
    /\ heat' = Heat(f')
    /\ proj' = Projectors(f')

\* the first run: every widget shows its default
FirstRun ==
    /\ pc = "loaded"
    /\ sel' = [col \in MultiCols \cap columns |-> opts(col)]
    /\ choice' = [col \in SelectCols \cap columns |-> "All"]
    /\ grade_range' = IF HasGrades THEN <<GradeLow, GradeHigh>> ELSE None
    /\ Render(sel', choice', grade_range')
    /\ pc' = "ready"
    /\ UNCHANGED <<csv, columns, df, nchanges>>

\* the user changes a multiselect; the script runs again
ChangeMultiselect ==
    /\ pc = "ready"
    /\ nchanges < MaxChanges
    /\ \E col \in DOMAIN sel : \E picked \in SUBSET opts(col) :
          /\ picked # sel[col]
          /\ sel' = [sel EXCEPT ![col] = picked]
    /\ Render(sel', choice, grade_range)
    /\ nchanges' = nchanges + 1
    /\ UNCHANGED <<csv, columns, df, pc, choice, grade_range>>

\* the user changes a selectbox; the script runs again
ChangeSelectbox ==
    /\ pc = "ready"
    /\ nchanges < MaxChanges
    /\ \E col \in DOMAIN choice :
       \E label \in {"All"} \cup DOMAIN SelectMap[col] :
          /\ label # choice[col]
          /\ choice' = [choice EXCEPT ![col] = label]
    /\ Render(sel, choice', grade_range)
    /\ nchanges' = nchanges + 1
    /\ UNCHANGED <<csv, columns, df, pc, sel, grade_range>>

\* the user moves the grade slider; the script runs again
ChangeSlider ==
    /\ pc = "ready"
    /\ nchanges < MaxChanges
    /\ HasGrades
    /\ \E lo \in GradeLow..GradeHigh : \E hi \in lo..GradeHigh :
          /\ <<lo, hi>> # grade_range
          /\ grade_range' = <<lo, hi>>
    /\ Render(sel, choice, grade_range')
    /\ nchanges' = nchanges + 1
    /\ UNCHANGED <<csv, columns, df, pc, sel, choice>>

Next ==
    \/ LoadData
    \/ FirstRun
    \/ ChangeMultiselect
    \/ ChangeSelectbox
    \/ ChangeSlider

Spec == Init /\ [][Next]_vars

\* the derived columns alone, over the wide range of one-school files
SpecDerive == InitDerive /\ [][LoadData]_vars

----------------------------------------------------------------------------
(* Properties *)

Rows(t) == {t[i] : i \in 1..Len(t)}

\* no predicate is set: every multiselect shows all its options, every
\* selectbox shows "All", the slider spans the grades of the dataset
NoPredicateSet ==
    /\ \A col \in DOMAIN sel : sel[col] = opts(col)
    /\ \A col \in DOMAIN choice : choice[col] = "All"
    /\ HasGrades => grade_range = <<GradeLow, GradeHigh>>

\* C1: with no predicate set, the filtered view holds exactly the rows of the
\* loaded dataset, rows with a missing value in a filterable column included.
C1_IdentityWithNoRestriction ==
    (pc = "ready" /\ NoPredicateSet) => f = df

\* C2: a membership filter whose selection the user has emptied leaves the
\* filtered view with no rows.
C2_EmptySelectionExcludesAll ==
    pc = "ready" =>
        \A col \in DOMAIN sel : (sel[col] = {} /\ opts(col) # {}) => f = <<>>

\* the predicates of the filter state, as the specification reads them: a
\* multiselect away from its default is a membership predicate (the empty
\* selection too), a selectbox away from "All" an equality predicate, the
\* slider away from the full span a range predicate
SatisfiesEveryPredicate(r) ==
    /\ \A col \in DOMAIN sel : sel[col] # opts(col) => r[col] \in sel[col]
    /\ \A col \in DOMAIN choice :
          choice[col] # "All" => Eq(r[col], SelectMap[col][choice[col]])
    /\ (HasGrades /\ grade_range # <<GradeLow, GradeHigh>>) =>
          (Ge(r.lowclass, grade_range[1]) /\ Le(r.highclass, grade_range[2]))

\* C3: a row of df is in the filtered view if and only if it satisfies every
\* predicate that is set.
C3_ConjunctionOfPredicates ==
    pc = "ready" => f = SelectSeq(df, SatisfiesEveryPredicate)

\* the number of the four facility columns that hold code 1
CountOfOnes(r) == Cardinality({i \in 1..Len(InfraCols) : r[InfraCols[i]] = V(1)})

\* C4: in every loaded row infra_score is in 0..4 and is the number of the
\* four facility columns holding code 1; every other code counts 0.
C4_InfraScoreCountsOnes ==
    pc = "loaded" =>
        \A r \in Rows(df) : r.infra_score \in 0..4 /\ r.infra_score = CountOfOnes(r)

\* C5: in every loaded row cwsn_ready is true exactly when ramps are coded 1
\* and a functional CWSN toilet count (boys or girls) is present and above 0;
\* it is false otherwise, also when ramps or the counts are missing.
C5_CwsnReady ==
    pc = "loaded" =>
        \A r \in Rows(df) :
            /\ r.cwsn_ready \in BOOLEAN
            /\ r.cwsn_ready <=>
                  /\ r.availability_ramps = V(1)
                  /\ \E c \in {r.func_boys_cwsn_friendly, r.func_girls_cwsn_friendly} :
                        c # NaN /\ c[1] > 0

\* C5 witness: ramps are missing, a CWSN toilet works, the flag is false
C5_Witness ==
    /\ pc = "loaded"
    /\ \E r \in Rows(df) :
          /\ r.availability_ramps = NaN
          /\ r.func_girls_cwsn_friendly = V(1)
          /\ r.cwsn_ready = FALSE

\* C6: in every loaded row with no toilets (boys + girls = 0) the ratio is the
\* missing value, whatever the functional counts; with a non-zero total and
\* known functional counts it is functional / total; a missing count makes
\* the ratio missing.
C6_ToiletRatio ==
    pc = "loaded" =>
        \A r \in Rows(df) :
            LET bt == r.total_boys_toilet
                gt == r.total_girls_toilet
                bf == r.total_boys_func_toilet
                gf == r.total_girls_func_toilet
                q  == r.toilet_functionality_ratio
            IN  /\ (bt # NaN /\ gt # NaN /\ bt[1] + gt[1] = 0) => q = NaN
                /\ (bt = NaN \/ gt = NaN \/ bf = NaN \/ gf = NaN) => q = NaN
                /\ (bt # NaN /\ gt # NaN /\ bf # NaN /\ gf # NaN
                    /\ bt[1] + gt[1] # 0) =>
                      /\ q # NaN
                      /\ q[1].d # 0
                      /\ q[1].n * (bt[1] + gt[1]) = (bf[1] + gf[1]) * q[1].d

\* C6 witness: no toilets but functional ones reported, the ratio is missing
C6_Witness ==
    /\ pc = "loaded"
    /\ \E r \in Rows(df) :
          /\ r.total_boys_toilet = V(0) /\ r.total_girls_toilet = V(0)
          /\ r.total_boys_func_toilet = V(1)
          /\ r.toilet_functionality_ratio = NaN

NanPercent == [text |-> "nan%", tenths |-> 0]

\* C7: when the filters leave no row, the cards show 0 schools and "nan%" for
\* each of the seven percentages, and the top-10 list is empty.
C7_EmptyView ==
    (pc = "ready" /\ Len(f) = 0) =>
        /\ kpi.total = 0
        /\ \A k \in {"electricity", "internet", "library", "playground",
                     "rainwater", "toilet", "cwsn"} : kpi[k] = NanPercent
        /\ infra_by_dist = <<>>

\* C7 witness: a filter change has emptied the view of a non-empty dataset
C7_Witness ==
    /\ pc = "ready" /\ nchanges > 0
    /\ Len(df) > 0 /\ Len(f) = 0
    /\ kpi.cwsn = NanPercent

\* every group of the one-key aggregates has a row of f
GroupsHaveRows ==
    /\ \A i \in 1..Len(infra_by_dist) :
          \E r \in Rows(f) : r.district = infra_by_dist[i].district
    /\ \A g \in stack : \E r \in Rows(f) : r.district = g.district
    /\ \A g \in bs : \E r \in Rows(f) : r.building_status = g.index
    /\ \A g \in proj : \E r \in Rows(f) : r.school_type = g.school_type

\* C8: a group appears in a grouped aggregate only if a row of f belongs to
\* it, and the ramps x cwsn_ready table has no cell with count 0.
C8_NoZeroRowGroups ==
    pc = "ready" =>
        /\ GroupsHaveRows
        /\ \A p \in DOMAIN heat.cell : heat.cell[p] > 0

\* C8 as amended: every group of the one-key aggregates has a row of f; the
\* ramps x cwsn_ready table is the full grid over the ramps values and the
\* cwsn_ready values of the rows of f whose ramps value is present, and a
\* cell holds the number of rows of f with that pair, 0 when there is none.
C8_GroupsObserved ==
    pc = "ready" =>
        LET known == {r \in Rows(f) : r.availability_ramps # NaN}
        IN  /\ GroupsHaveRows
            /\ heat.index = {r.availability_ramps : r \in known}
            /\ heat.columns = {r.cwsn_ready : r \in known}
            /\ DOMAIN heat.cell = heat.index \X heat.columns
            /\ \A p \in DOMAIN heat.cell :
                  heat.cell[p] = Cardinality({i \in 1..Len(f) :
                      f[i].availability_ramps = p[1] /\ f[i].cwsn_ready = p[2]})

\* C8 witness: the table holds a cell of count 0
C8_Witness ==
    /\ pc = "ready"
    /\ \E p \in DOMAIN heat.cell : heat.cell[p] = 0

\* no cell of a filterable column is missing
NoMissingFilterCell ==
    \A r \in Rows(df) :
        \A col \in (MultiCols \cup SelectCols \cup {"lowclass", "highclass"})
                      \cap columns : r[col] # NaN

\* C9: with Electricity on "No/Not functional" and nothing else set, the view
\* holds exactly the rows whose electricity code is 2 or 3.
C9_ElectricityNoIncludesCode3 ==
    (/\ pc = "ready"
     /\ choice.electricity_availability = "No/Not functional"
     /\ \A col \in DOMAIN sel : sel[col] = opts(col)
     /\ \A col \in DOMAIN choice \ {"electricity_availability"} : choice[col] = "All"
     /\ HasGrades => grade_range = <<GradeLow, GradeHigh>>
     /\ NoMissingFilterCell)
    => f = SelectSeq(df, LAMBDA r : r.electricity_availability \in {V(2), V(3)})

\* what the widgets s, c, g keep of a row, read off the code: an empty
\* selection and "All" restrict nothing
Keeps(r, s, c, g) ==
    /\ \A col \in DOMAIN s : s[col] # {} => r[col] \in s[col]
    /\ \A col \in DOMAIN c :
          c[col] # "All" => Eq(r[col], SelectMap[col][c[col]])
    /\ g # None => (Ge(r.lowclass, g[1]) /\ Le(r.highclass, g[2]))

\* C10: once loaded, no run changes df, and after every run f is fixed by df
\* and the widget values of that run alone.
C10_HistoryIndependence ==
    [][pc # "start" =>
          /\ df' = df
          /\ f' = SelectSeq(df', LAMBDA r : Keeps(r, sel', choice', grade_range'))]_vars

\* C10 witness: after two changes every widget is back at its default and
\* the view shows what the first run showed
C10_Witness ==
    /\ pc = "ready" /\ nchanges = 2
    /\ NoPredicateSet
    /\ Len(df) = 2 /\ f = df

====
